---- MODULE Spec2Model ----
(***************************************************************************)
(* Model of the data-structure and algorithm scripts of the repository:    *)
(*   python/06_Algorithms/02_sorting.py        bubble, merge, quick sort   *)
(*   python/06_Algorithms/03_searching.py      linear and binary search    *)
(*   python/05_DSA_Custom/05_binary_search_tree.py   insert/inorder/search *)
(*   python/05_DSA_Custom/06_graphs.py         Graph.add_edge / bfs / dfs  *)
(*   python/05_DSA_Custom/02_linked_lists.py   LinkedList                  *)
(* The scripts are independent, so each has its own specification over its *)
(* own variables; the variables of the other scripts stay idle.  A call is *)
(* one step; bfs and dfs are also taken statement by statement, in a       *)
(* specification of their own, to show that they come to an end.           *)
(* Python lists are sequences; a Python index i is position i + 1.         *)
(***************************************************************************)
EXTENDS Integers, Sequences, FiniteSets, TLC

VARIABLES
    arr, arr0, sortOp, part, pi,                \* 02_sorting.py
    s_arr, x, low, high, lin_result, bin_result, \* 03_searching.py
    nodes, root, nodes0, root0, inserted, bstOp, bst_key, bst_ret, bst_out, \* 05_binary_search_tree.py
    graph, graph0, g_edges, gOp, g_arg, g_out, g_err, \* 06_graphs.py
    pc, t_queue, t_visited, t_dfs_visited, t_stack, t_loop, \* 06_graphs.py, a traversal step by step
    l_nodes, head, l_nodes0, head0, lOp, l_arg, l_said, l_calls, l_foreign \* 02_linked_lists.py

sortVars   == <<arr, arr0, sortOp, part, pi>>
searchVars == <<s_arr, x, low, high, lin_result, bin_result>>
bstVars    == <<nodes, root, nodes0, root0, inserted, bstOp, bst_key, bst_ret, bst_out>>
stepVars   == <<pc, t_queue, t_visited, t_dfs_visited, t_stack, t_loop>>
graphVars  == <<graph, graph0, g_edges, gOp, g_arg, g_out, g_err, stepVars>>
listVars   == <<l_nodes, head, l_nodes0, head0, lOp, l_arg, l_said, l_calls, l_foreign>>
vars       == <<sortVars, searchVars, bstVars, graphVars, listVars>>

\* Bounds of the model.
MaxLen == 4
MaxKey == 3
MaxInserts == 4
MaxVertex == 2
MaxEdges == 2
MaxNodes == 4
MaxData == 2

Keys == 1..MaxKey

KeySeqs == UNION {[1..n -> Keys] : n \in 0..MaxLen}

\* ------------------------------------------------------------------------
\* Python list access
\* ------------------------------------------------------------------------
Get(a, i) == a[i + 1]

Put(a, i, v) == [a EXCEPT ![i + 1] = v]

\* a[i], a[j] = a[j], a[i]
Swap(a, i, j) == [a EXCEPT ![i + 1] = a[j + 1], ![j + 1] = a[i + 1]]

\* a[:mid] and a[mid:]
SliceTo(a, mid) == SubSeq(a, 1, mid)

SliceFrom(a, mid) == SubSeq(a, mid + 1, Len(a))

\* ------------------------------------------------------------------------
\* 02_sorting.py.  An element is a record with the key the comparison
\* operators look at and a tag that tells equal keys apart.
\* ------------------------------------------------------------------------
Tagged(ks) == [i \in 1..Len(ks) |-> [key |-> ks[i], tag |-> i]]

\* range(0, n-i-1): the exclusive end of the inner loop
BubbleStop_OffByOne(n, i) == n - i - 2

BubbleStop(n, i) == n - i - 1

\* if arr[j] > arr[j+1]: swap
BubbleStep_SwapOnTie(a, j) ==
    IF Get(a, j).key >= Get(a, j + 1).key THEN Swap(a, j, j + 1) ELSE a

BubbleStep(a, j) ==
    IF Get(a, j).key > Get(a, j + 1).key THEN Swap(a, j, j + 1) ELSE a

RECURSIVE BubbleInner(_, _, _)
BubbleInner(a, j, stop) ==
    IF j < stop THEN BubbleInner(BubbleStep(a, j), j + 1, stop) ELSE a

RECURSIVE BubbleOuter(_, _)
BubbleOuter(a, i) ==
    IF i < Len(a)
    THEN BubbleOuter(BubbleInner(a, 0, BubbleStop(Len(a), i)), i + 1)
    ELSE a

bubble_sort(a) == BubbleOuter(a, 0)

\* if L[i] < R[j]: the head of L is copied, else the head of R
TakeLeft(l, r) == l.key < r.key

\* while i < len(L) and j < len(R)
RECURSIVE MergeHeads(_, _, _, _, _, _)
MergeHeads(a, L, R, i, j, k) ==
    IF i < Len(L) /\ j < Len(R)
    THEN IF TakeLeft(Get(L, i), Get(R, j))
         THEN MergeHeads(Put(a, k, Get(L, i)), L, R, i + 1, j, k + 1)
         ELSE MergeHeads(Put(a, k, Get(R, j)), L, R, i, j + 1, k + 1)
    ELSE [a |-> a, i |-> i, j |-> j, k |-> k]

\* while i < len(L)
RECURSIVE CopyLeft(_, _, _, _)
CopyLeft(a, L, i, k) ==
    IF i < Len(L)
    THEN CopyLeft(Put(a, k, Get(L, i)), L, i + 1, k + 1)
    ELSE [a |-> a, k |-> k]

\* while j < len(R)
RECURSIVE CopyRight(_, _, _, _)
CopyRight(a, R, j, k) ==
    IF j < Len(R)
    THEN CopyRight(Put(a, k, Get(R, j)), R, j + 1, k + 1)
    ELSE [a |-> a, k |-> k]

Merge(a, L, R) ==
    LET m == MergeHeads(a, L, R, 0, 0, 0)
        l == CopyLeft(m.a, L, m.i, m.k)
    IN  CopyRight(l.a, R, m.j, l.k).a

RECURSIVE merge_sort(_)
merge_sort(a) ==
    IF Len(a) > 1
    THEN LET mid == Len(a) \div 2
         IN  Merge(a, merge_sort(SliceTo(a, mid)), merge_sort(SliceFrom(a, mid)))
    ELSE a

\* for j in range(low, high): if arr[j] <= pivot: i = i+1; swap(i, j)
RECURSIVE PartitionLoop(_, _, _, _, _)
PartitionLoop(a, i, j, hi, pivot) ==
    IF j < hi
    THEN IF Get(a, j).key <= pivot.key
         THEN PartitionLoop(Swap(a, i + 1, j), i + 1, j + 1, hi, pivot)
         ELSE PartitionLoop(a, i, j + 1, hi, pivot)
    ELSE [a |-> a, i |-> i]

\* partition without its last swap
partition_PivotStays(a, lo, hi) ==
    LET p == PartitionLoop(a, lo - 1, lo, hi, Get(a, hi))
    IN  [a |-> p.a, pi |-> p.i + 1]

partition(a, lo, hi) ==
    LET p == PartitionLoop(a, lo - 1, lo, hi, Get(a, hi))
    IN  [a |-> Swap(p.a, p.i + 1, hi), pi |-> p.i + 1]

RECURSIVE quick_sort(_, _, _)
quick_sort(a, lo, hi) ==
    IF Len(a) = 1 THEN a
    ELSE IF lo < hi
         THEN LET p == partition(a, lo, hi)
              IN  quick_sort(quick_sort(p.a, lo, p.pi - 1), p.pi + 1, hi)
         ELSE a

SortIdle ==
    arr = <<>> /\ arr0 = <<>> /\ sortOp = "none" /\ part = <<0, 0>> /\ pi = -1

BubbleSort ==
    /\ arr0' = arr
    /\ arr' = bubble_sort(arr)
    /\ sortOp' = "bubble_sort"
    /\ pi' = -1
    /\ UNCHANGED part
    /\ UNCHANGED <<searchVars, bstVars, graphVars, listVars>>

MergeSort ==
    /\ arr0' = arr
    /\ arr' = merge_sort(arr)
    /\ sortOp' = "merge_sort"
    /\ pi' = -1
    /\ UNCHANGED part
    /\ UNCHANGED <<searchVars, bstVars, graphVars, listVars>>

QuickSort ==
    /\ arr0' = arr
    /\ arr' = quick_sort(arr, 0, Len(arr) - 1)
    /\ sortOp' = "quick_sort"
    /\ pi' = -1
    /\ UNCHANGED part
    /\ UNCHANGED <<searchVars, bstVars, graphVars, listVars>>

\* pi = partition(arr, low, high), part being <<low, high>>.  On an empty
\* list pivot = arr[high] raises IndexError and nothing changes.
Partition ==
    /\ arr # <<>>
    /\ arr0' = arr
    /\ LET p == partition(arr, part[1], part[2])
       IN  arr' = p.a /\ pi' = p.pi
    /\ sortOp' = "partition"
    /\ UNCHANGED part
    /\ UNCHANGED <<searchVars, bstVars, graphVars, listVars>>

\* ------------------------------------------------------------------------
\* 03_searching.py
\* ------------------------------------------------------------------------
\* A Python subscript a[i] raises IndexError outside -len(a) .. len(a)-1
\* and counts a negative i from the end.
InRange(a, i) == -Len(a) <= i /\ i < Len(a)

PyGet(a, i) == IF i >= 0 THEN a[i + 1] ELSE a[Len(a) + i + 1]

\* for i in range(len(arr)): if arr[i] == x: return i
RECURSIVE LinearLoop(_, _, _)
LinearLoop(a, t, i) ==
    IF i < Len(a)
    THEN IF Get(a, i) = t THEN i ELSE LinearLoop(a, t, i + 1)
    ELSE -1

linear_search_SkipFirst(a, t) == LinearLoop(a, t, 1)

linear_search(a, t) == LinearLoop(a, t, 0)

\* mid = (high + low) // 2
Mid(lo, hi) == (hi + lo) \div 2

\* return mid
FoundAt_OneBased(mid) == mid + 1

FoundAt(mid) == mid

\* elif arr[mid] > x: the lower half is searched
GoLow_Flipped(v, t) == v < t

GoLow(v, t) == v > t

\* The result is the returned index, or the IndexError the subscript raised.
RECURSIVE binary_search(_, _, _, _)
binary_search(a, lo, hi, t) ==
    IF hi >= lo
    THEN LET mid == Mid(lo, hi)
         IN  IF ~InRange(a, mid) THEN [ret |-> -1, raised |-> "IndexError"]
             ELSE IF PyGet(a, mid) = t
                  THEN [ret |-> FoundAt(mid), raised |-> "none"]
             ELSE IF GoLow(PyGet(a, mid), t)
                  THEN binary_search(a, lo, mid - 1, t)
                  ELSE binary_search(a, mid + 1, hi, t)
    ELSE [ret |-> -1, raised |-> "none"]

SearchIdle ==
    /\ s_arr = <<>> /\ x = 0 /\ low = 0 /\ high = 0
    /\ lin_result = <<>> /\ bin_result = <<>>

LinearSearch ==
    /\ lin_result' = <<linear_search(s_arr, x)>>
    /\ UNCHANGED <<s_arr, x, low, high, bin_result>>
    /\ UNCHANGED <<sortVars, bstVars, graphVars, listVars>>

BinarySearch ==
    /\ bin_result' = <<binary_search(s_arr, low, high, x)>>
    /\ UNCHANGED <<s_arr, x, low, high, lin_result>>
    /\ UNCHANGED <<sortVars, bstVars, graphVars, listVars>>

\* ------------------------------------------------------------------------
\* 05_binary_search_tree.py.  nodes is the heap of Node objects: node n is
\* nodes[n], in order of creation, and None is the reference to no node.
\* ------------------------------------------------------------------------
None == 0

\* Node.__init__
NewNode(key) == [val |-> key, left |-> None, right |-> None]

\* insert: if root.val < key the key goes to the right subtree, else left
GoRight_Flipped(v, key) == v > key

GoRight_TiesRight(v, key) == v <= key

GoRight(v, key) == v < key

\* insert that hands back what the recursive call returned
RECURSIVE insert_ReturnsNew(_, _, _)
insert_ReturnsNew(h, r, key) ==
    IF r = None
    THEN [h |-> Append(h, NewNode(key)), ret |-> Len(h) + 1]
    ELSE IF GoRight(h[r].val, key)
         THEN LET s == insert_ReturnsNew(h, h[r].right, key)
              IN  [h |-> [s.h EXCEPT ![r].right = s.ret], ret |-> s.ret]
         ELSE LET s == insert_ReturnsNew(h, h[r].left, key)
              IN  [h |-> [s.h EXCEPT ![r].left = s.ret], ret |-> s.ret]

\* The result is the heap after the call and the reference returned.
RECURSIVE insert(_, _, _)
insert(h, r, key) ==
    IF r = None
    THEN [h |-> Append(h, NewNode(key)), ret |-> Len(h) + 1]
    ELSE IF GoRight(h[r].val, key)
         THEN LET s == insert(h, h[r].right, key)
              IN  [h |-> [s.h EXCEPT ![r].right = s.ret], ret |-> r]
         ELSE LET s == insert(h, h[r].left, key)
              IN  [h |-> [s.h EXCEPT ![r].left = s.ret], ret |-> r]

\* The keys printed, in the order printed.
RECURSIVE inorder(_, _)
inorder(h, r) ==
    IF r # None
    THEN inorder(h, h[r].left) \o <<h[r].val>> \o inorder(h, h[r].right)
    ELSE <<>>

\* search: if root.val < key the right subtree is searched, else the left
SearchRight_Flipped(v, key) == v > key

SearchRight(v, key) == v < key

RECURSIVE search(_, _, _)
search(h, r, key) ==
    IF r = None \/ h[r].val = key THEN r
    ELSE IF SearchRight(h[r].val, key)
         THEN search(h, h[r].right, key)
         ELSE search(h, h[r].left, key)

BstIdle ==
    /\ nodes = <<>> /\ root = None /\ nodes0 = <<>> /\ root0 = None
    /\ inserted = <<>> /\ bstOp = "none"
    /\ bst_key = 0 /\ bst_ret = None /\ bst_out = <<>>

\* r = insert(r, key)
Insert ==
    \E key \in Keys :
        /\ Len(inserted) < MaxInserts
        /\ LET s == insert(nodes, root, key)
           IN  nodes' = s.h /\ root' = s.ret
        /\ nodes0' = nodes /\ root0' = root
        /\ inserted' = Append(inserted, key)
        /\ bstOp' = "insert"
        /\ bst_key' = key
        /\ bst_ret' = None
        /\ bst_out' = <<>>
        /\ UNCHANGED <<sortVars, searchVars, graphVars, listVars>>

\* inorder(r)
Inorder ==
    /\ bst_out' = inorder(nodes, root)
    /\ bstOp' = "inorder"
    /\ bst_key' = 0
    /\ bst_ret' = None
    /\ nodes0' = nodes /\ root0' = root
    /\ UNCHANGED <<nodes, root, inserted>>
    /\ UNCHANGED <<sortVars, searchVars, graphVars, listVars>>

\* result = search(r, key); the keys include one that is never inserted
Search ==
    \E key \in 1..(MaxKey + 1) :
        /\ bst_ret' = search(nodes, root, key)
        /\ bst_key' = key
        /\ bstOp' = "search"
        /\ bst_out' = <<>>
        /\ nodes0' = nodes /\ root0' = root
        /\ UNCHANGED <<nodes, root, inserted>>
        /\ UNCHANGED <<sortVars, searchVars, graphVars, listVars>>

\* ------------------------------------------------------------------------
\* 06_graphs.py.  self.graph is a defaultdict(list): a function from its
\* keys to adjacency sequences, and reading self.graph[v] for a v that is
\* no key makes v a key with an empty sequence.
\* ------------------------------------------------------------------------
Vertices == 0..MaxVertex

Max(S) == CHOOSE m \in S : \A n \in S : n <= m

\* Graph.__init__
EmptyGraph == [k \in {} |-> <<>>]

\* self.graph[v]
Touch(g, v) ==
    IF v \in DOMAIN g THEN g
    ELSE [k \in DOMAIN g \cup {v} |-> IF k = v THEN <<>> ELSE g[k]]

\* self.graph[u].append(v)
add_edge_Undirected(g, u, v) ==
    LET g1 == [Touch(g, u) EXCEPT ![u] = Append(@, v)]
    IN  [Touch(g1, v) EXCEPT ![v] = Append(@, u)]

add_edge(g, u, v) == [Touch(g, u) EXCEPT ![u] = Append(@, v)]

\* [False] * (max(self.graph) + 1)
VisitedSize_Len(g) == Cardinality(DOMAIN g) + 1

VisitedSize(g) == Max(DOMAIN g) + 1

\* for i in self.graph[s]: if visited[i] == False: enqueue and mark.
\* visited[i] raises IndexError for an i past the end of visited.
RECURSIVE BfsFor(_, _, _, _)
BfsFor(nbrs, n, queue, visited) ==
    IF n < Len(nbrs)
    THEN LET i == nbrs[n + 1]
         IN  IF i \notin DOMAIN visited
             THEN [queue |-> queue, visited |-> visited, err |-> "IndexError"]
             ELSE IF visited[i] = FALSE
                  THEN BfsFor(nbrs, n + 1, Append(queue, i),
                              [visited EXCEPT ![i] = TRUE])
                  ELSE BfsFor(nbrs, n + 1, queue, visited)
    ELSE [queue |-> queue, visited |-> visited, err |-> "none"]

\* while queue: s = queue.pop(0); print(s); for ...
RECURSIVE BfsWhile(_, _, _, _)
BfsWhile(g, queue, visited, out) ==
    IF queue # <<>>
    THEN LET s  == Head(queue)
             g1 == Touch(g, s)
             r  == BfsFor(g1[s], 0, Tail(queue), visited)
         IN  IF r.err # "none"
             THEN [g |-> g1, out |-> Append(out, s), err |-> r.err]
             ELSE BfsWhile(g1, r.queue, r.visited, Append(out, s))
    ELSE [g |-> g, out |-> out, err |-> "none"]

\* The result is the mapping after the call, the vertices printed and the
\* exception raised: max() of an empty mapping raises ValueError, and
\* visited[s] = True raises IndexError for an s past the end of visited.
bfs(g, s) ==
    IF DOMAIN g = {}
    THEN [g |-> g, out |-> <<>>, err |-> "ValueError"]
    ELSE LET visited == [i \in 0..(VisitedSize(g) - 1) |-> FALSE]
         IN  IF s \notin DOMAIN visited
             THEN [g |-> g, out |-> <<>>, err |-> "IndexError"]
             ELSE BfsWhile(g, <<s>>, [visited EXCEPT ![s] = TRUE], <<>>)

\* if neighbour not in visited
DfsEnter(neighbour, visited) == neighbour \notin visited

RECURSIVE dfs_util(_, _, _, _)
RECURSIVE DfsFor(_, _, _, _, _)
\* for neighbour in self.graph[v]: the sequence is read once
DfsFor(g, nbrs, n, visited, out) ==
    IF n < Len(nbrs)
    THEN IF DfsEnter(nbrs[n + 1], visited)
         THEN LET r == dfs_util(g, nbrs[n + 1], visited, out)
              IN  DfsFor(r.g, nbrs, n + 1, r.visited, r.out)
         ELSE DfsFor(g, nbrs, n + 1, visited, out)
    ELSE [g |-> g, visited |-> visited, out |-> out]

dfs_util_Postorder(g, v, visited, out) ==
    LET g1 == Touch(g, v)
        r  == DfsFor(g1, g1[v], 0, visited \cup {v}, out)
    IN  [g |-> r.g, visited |-> r.visited, out |-> Append(r.out, v)]

\* visited.add(v); print(v); for ...
dfs_util(g, v, visited, out) ==
    LET g1 == Touch(g, v)
    IN  DfsFor(g1, g1[v], 0, visited \cup {v}, Append(out, v))

dfs(g, v) ==
    LET r == dfs_util(g, v, {}, <<>>)
    IN  [g |-> r.g, out |-> r.out, err |-> "none"]

EdgeCount(g) ==
    LET RECURSIVE Sum(_)
        Sum(K) == IF K = {} THEN 0
                  ELSE LET k == CHOOSE k \in K : TRUE
                       IN  Len(g[k]) + Sum(K \ {k})
    IN  Sum(DOMAIN g)

\* No traversal is under way.
StepIdle ==
    /\ pc = "idle" /\ t_queue = <<>> /\ t_visited = <<>> /\ t_dfs_visited = {}
    /\ t_stack = <<>> /\ t_loop = <<>>

GraphIdle ==
    /\ graph = EmptyGraph /\ graph0 = EmptyGraph /\ g_edges = EmptyGraph
    /\ gOp = "none"
    /\ g_arg = <<>> /\ g_out = <<>> /\ g_err = "none"
    /\ StepIdle

\* g.add_edge(u, v); g_edges is the mapping that the add_edge calls made so
\* far give on their own, with no traversal between them
AddEdge ==
    \E u \in Vertices, v \in Vertices :
        /\ EdgeCount(graph) < MaxEdges
        /\ graph0' = graph
        /\ graph' = add_edge(graph, u, v)
        /\ g_edges' = add_edge(g_edges, u, v)
        /\ gOp' = "add_edge"
        /\ g_arg' = <<u, v>>
        /\ g_out' = <<>>
        /\ g_err' = "none"
        /\ UNCHANGED <<stepVars, sortVars, searchVars, bstVars, listVars>>

\* g.bfs(s)
Bfs ==
    \E s \in Vertices :
        /\ graph0' = graph
        /\ LET r == bfs(graph, s)
           IN  graph' = r.g /\ g_out' = r.out /\ g_err' = r.err
        /\ gOp' = "bfs"
        /\ UNCHANGED g_edges
        /\ g_arg' = <<s>>
        /\ UNCHANGED <<stepVars, sortVars, searchVars, bstVars, listVars>>

\* g.dfs(v)
Dfs ==
    \E v \in Vertices :
        /\ graph0' = graph
        /\ LET r == dfs(graph, v)
           IN  graph' = r.g /\ g_out' = r.out /\ g_err' = r.err
        /\ gOp' = "dfs"
        /\ UNCHANGED g_edges
        /\ g_arg' = <<v>>
        /\ UNCHANGED <<stepVars, sortVars, searchVars, bstVars, listVars>>

\* ------------------------------------------------------------------------
\* 06_graphs.py, one traversal statement by statement.  pc is the place in
\* the code, t_queue and t_visited are queue and visited of bfs,
\* t_dfs_visited is visited of dfs, t_stack holds a frame for every dfs_util
\* call under way (its vertex, the list its for loop goes through and how
\* far it is), t_loop is the same for the for loop of bfs.
\* ------------------------------------------------------------------------
\* g.add_edge(u, v) for each <<u, v>> of es, in order
RECURSIVE AddAll(_, _)
AddAll(g, es) ==
    IF es = <<>> THEN g
    ELSE AddAll(add_edge(g, Head(es)[1], Head(es)[2]), Tail(es))

EdgeSeqs == UNION {[1..n -> Vertices \X Vertices] : n \in 0..MaxEdges}

\* visited[i] = True without effect
BfsMark_Forgets(vis, i) == vis

\* visited[i] = True
BfsMark(vis, i) == [vis EXCEPT ![i] = TRUE]

Raise(err) ==
    /\ g_err' = err
    /\ pc' = "done"

\* bfs up to its while loop
StepBfsStart ==
    /\ pc = "start" /\ gOp = "bfs"
    /\ IF DOMAIN graph = {}
       THEN Raise("ValueError") /\ UNCHANGED <<t_queue, t_visited>>
       ELSE LET vis == [i \in 0..(VisitedSize(graph) - 1) |-> FALSE]
                s   == g_arg[1]
            IN  /\ t_queue' = <<s>>
                /\ IF s \in DOMAIN vis
                   THEN /\ t_visited' = [vis EXCEPT ![s] = TRUE]
                        /\ pc' = "while"
                        /\ UNCHANGED g_err
                   ELSE Raise("IndexError") /\ t_visited' = vis
    /\ UNCHANGED <<graph, graph0, g_edges, gOp, g_arg, g_out, t_dfs_visited, t_stack, t_loop>>
    /\ UNCHANGED <<sortVars, searchVars, bstVars, listVars>>

\* while queue: s = queue.pop(0); print(s); for i in self.graph[s]
StepBfsWhile ==
    /\ pc = "while"
    /\ IF t_queue # <<>>
       THEN LET s == Head(t_queue)
            IN  /\ t_queue' = Tail(t_queue)
                /\ g_out' = Append(g_out, s)
                /\ graph' = Touch(graph, s)
                /\ t_loop' = [nbrs |-> Touch(graph, s)[s], n |-> 0]
                /\ pc' = "for"
       ELSE /\ pc' = "done"
            /\ UNCHANGED <<t_queue, g_out, graph, t_loop>>
    /\ UNCHANGED <<graph0, g_edges, gOp, g_arg, g_err, t_visited, t_dfs_visited, t_stack>>
    /\ UNCHANGED <<sortVars, searchVars, bstVars, listVars>>

\* one turn of for i in self.graph[s], or its end
StepBfsFor ==
    /\ pc = "for"
    /\ IF t_loop.n < Len(t_loop.nbrs)
       THEN LET i == t_loop.nbrs[t_loop.n + 1]
            IN  IF i \notin DOMAIN t_visited
                THEN Raise("IndexError") /\ UNCHANGED <<t_queue, t_visited, t_loop>>
                ELSE /\ IF t_visited[i] = FALSE
                        THEN /\ t_queue' = Append(t_queue, i)
                             /\ t_visited' = BfsMark(t_visited, i)
                        ELSE UNCHANGED <<t_queue, t_visited>>
                     /\ t_loop' = [t_loop EXCEPT !.n = @ + 1]
                     /\ UNCHANGED <<pc, g_err>>
       ELSE /\ pc' = "while"
            /\ UNCHANGED <<t_queue, t_visited, t_loop, g_err>>
    /\ UNCHANGED <<graph, graph0, g_edges, gOp, g_arg, g_out, t_dfs_visited, t_stack>>
    /\ UNCHANGED <<sortVars, searchVars, bstVars, listVars>>

\* The call self.dfs_util(v, visited) up to its for loop: visited.add(v);
\* print(v); for neighbour in self.graph[v]
DfsCall(stk, v) ==
    /\ t_dfs_visited' = t_dfs_visited \cup {v}
    /\ g_out' = Append(g_out, v)
    /\ graph' = Touch(graph, v)
    /\ t_stack' = Append(stk, [v |-> v, nbrs |-> Touch(graph, v)[v], n |-> 0])

\* dfs: visited = set(); self.dfs_util(v, visited)
StepDfsStart ==
    /\ pc = "start" /\ gOp = "dfs"
    /\ DfsCall(<<>>, g_arg[1])
    /\ pc' = "dfs_for"
    /\ UNCHANGED <<graph0, g_edges, gOp, g_arg, g_err, t_queue, t_visited, t_loop>>
    /\ UNCHANGED <<sortVars, searchVars, bstVars, listVars>>

\* one turn of for neighbour in self.graph[v] in the innermost dfs_util call
\* under way, or that call's return
StepDfsFor ==
    /\ pc = "dfs_for"
    /\ LET top == t_stack[Len(t_stack)]
           rest == SubSeq(t_stack, 1, Len(t_stack) - 1)
       IN  IF top.n < Len(top.nbrs)
           THEN LET neighbour == top.nbrs[top.n + 1]
                    stk == Append(rest, [top EXCEPT !.n = @ + 1])
                IN  /\ IF DfsEnter(neighbour, t_dfs_visited)
                       THEN DfsCall(stk, neighbour)
                       ELSE /\ t_stack' = stk
                            /\ UNCHANGED <<t_dfs_visited, g_out, graph>>
                    /\ UNCHANGED pc
           ELSE /\ t_stack' = rest
                /\ pc' = IF rest = <<>> THEN "done" ELSE "dfs_for"
                /\ UNCHANGED <<t_dfs_visited, g_out, graph>>
    /\ UNCHANGED <<graph0, g_edges, gOp, g_arg, g_err, t_queue, t_visited, t_loop>>
    /\ UNCHANGED <<sortVars, searchVars, bstVars, listVars>>

\* ------------------------------------------------------------------------
\* 02_linked_lists.py.  l_nodes is the heap of Node objects, as for the
\* tree; head is LinkedList.head.  A result is the heap and the head after
\* the call.
\* ------------------------------------------------------------------------
\* Node.__init__
ListNode(data) == [data |-> data, next |-> None]

push_DropsTail(h, hd, data) ==
    [h |-> Append(h, ListNode(data)), head |-> Len(h) + 1]

push(h, hd, data) ==
    LET new_node == Len(h) + 1
        h1 == Append(h, ListNode(data))
    IN  [h |-> [h1 EXCEPT ![new_node].next = hd], head |-> new_node]

Message == "The given previous node must inLinkedList."

insert_after_NoneIsPush(h, hd, prev_node, data) ==
    LET new_node == Len(h) + 1
        h1 == Append(h, ListNode(data))
    IN  IF prev_node = None
        THEN [h |-> [h1 EXCEPT ![new_node].next = hd], head |-> new_node,
              said |-> "none"]
        ELSE [h |-> [h1 EXCEPT ![new_node].next = h1[prev_node].next,
                               ![prev_node].next = new_node],
              head |-> hd, said |-> "none"]

insert_after_LinksBack(h, hd, prev_node, data) ==
    LET new_node == Len(h) + 1
        h1 == Append(h, ListNode(data))
    IN  IF prev_node = None
        THEN [h |-> h, head |-> hd, said |-> Message]
        ELSE [h |-> [h1 EXCEPT ![new_node].next = prev_node,
                               ![prev_node].next = new_node],
              head |-> hd, said |-> "none"]

insert_after_DropsRest(h, hd, prev_node, data) ==
    IF prev_node = None
    THEN [h |-> h, head |-> hd, said |-> Message]
    ELSE LET new_node == Len(h) + 1
             h1 == Append(h, ListNode(data))
         IN  [h |-> [h1 EXCEPT ![prev_node].next = new_node],
              head |-> hd, said |-> "none"]

\* said is what the call printed
insert_after(h, hd, prev_node, data) ==
    IF prev_node = None
    THEN [h |-> h, head |-> hd, said |-> Message]
    ELSE LET new_node == Len(h) + 1
             h1 == Append(h, ListNode(data))
             h2 == [h1 EXCEPT ![new_node].next = h1[prev_node].next]
         IN  [h |-> [h2 EXCEPT ![prev_node].next = new_node],
              head |-> hd, said |-> "none"]

\* last = self.head; while (last.next): last = last.next
LastNode_StaysAtHead(h, last) == last

RECURSIVE LastNode(_, _)
LastNode(h, last) ==
    IF h[last].next # None THEN LastNode(h, h[last].next) ELSE last

append(h, hd, data) ==
    LET new_node == Len(h) + 1
        h1 == Append(h, ListNode(data))
    IN  IF hd = None
        THEN [h |-> h1, head |-> new_node]
        ELSE [h |-> [h1 EXCEPT ![LastNode(h1, hd)].next = new_node],
              head |-> hd]

\* print_list: the data printed, in the order printed
RECURSIVE PrintLoop(_, _)
PrintLoop(h, temp) ==
    IF temp # None
    THEN <<h[temp].data>> \o PrintLoop(h, h[temp].next)
    ELSE <<>>

print_list(h, hd) == PrintLoop(h, hd)

Data == 1..MaxData

ListIdle ==
    /\ l_nodes = <<>> /\ head = None /\ l_nodes0 = <<>> /\ head0 = None
    /\ lOp = "none" /\ l_arg = <<>> /\ l_said = "none"
    /\ l_calls = 0 /\ l_foreign = FALSE

\* The nodes that following next from n leads through.
RECURSIVE NodesFrom(_, _, _)
NodesFrom(h, n, seen) ==
    IF n = None \/ n \in seen THEN seen
    ELSE NodesFrom(h, h[n].next, seen \cup {n})

InList(h, hd, n) == n \in NodesFrom(h, hd, {})

\* llist.push(new_data)
Push ==
    \E data \in Data :
        /\ Len(l_nodes) < MaxNodes
        /\ LET r == push(l_nodes, head, data)
           IN  l_nodes' = r.h /\ head' = r.head
        /\ l_nodes0' = l_nodes /\ head0' = head
        /\ lOp' = "push"
        /\ l_arg' = <<data>>
        /\ l_said' = "none"
        /\ l_calls' = l_calls + 1
        /\ UNCHANGED l_foreign
        /\ UNCHANGED <<sortVars, searchVars, bstVars, graphVars>>

\* llist.append(new_data)
AppendData ==
    \E data \in Data :
        /\ Len(l_nodes) < MaxNodes
        /\ LET r == append(l_nodes, head, data)
           IN  l_nodes' = r.h /\ head' = r.head
        /\ l_nodes0' = l_nodes /\ head0' = head
        /\ lOp' = "append"
        /\ l_arg' = <<data>>
        /\ l_said' = "none"
        /\ l_calls' = l_calls + 1
        /\ UNCHANGED l_foreign
        /\ UNCHANGED <<sortVars, searchVars, bstVars, graphVars>>

\* llist.insert_after(prev_node, new_data): prev_node is None or any Node
\* the caller holds, in the list or not
InsertAfter ==
    \E prev_node \in {None} \cup DOMAIN l_nodes, data \in Data :
        /\ prev_node # None => Len(l_nodes) < MaxNodes
        /\ LET r == insert_after(l_nodes, head, prev_node, data)
           IN  l_nodes' = r.h /\ head' = r.head /\ l_said' = r.said
        /\ l_nodes0' = l_nodes /\ head0' = head
        /\ lOp' = "insert_after"
        /\ l_arg' = <<prev_node, data>>
        /\ l_calls' = IF prev_node # None THEN l_calls + 1 ELSE l_calls
        /\ l_foreign' = (l_foreign \/
                            (prev_node # None /\ ~InList(l_nodes, head, prev_node)))
        /\ UNCHANGED <<sortVars, searchVars, bstVars, graphVars>>

\* Node(data), made by the caller and linked into no list
MakeNode ==
    \E data \in Data :
        /\ Len(l_nodes) < MaxNodes
        /\ l_nodes' = Append(l_nodes, ListNode(data))
        /\ l_nodes0' = l_nodes /\ head0' = head
        /\ lOp' = "Node"
        /\ l_arg' = <<data>>
        /\ l_said' = "none"
        /\ UNCHANGED <<head, l_calls, l_foreign>>
        /\ UNCHANGED <<sortVars, searchVars, bstVars, graphVars>>

\* ------------------------------------------------------------------------
\* Specifications
\* ------------------------------------------------------------------------
SortNext == BubbleSort \/ MergeSort \/ QuickSort \/ Partition

\* The lists include the empty one; the bounds handed to partition are two
\* indices of the list, low at most one above high (an empty range).
PartitionBounds(a) ==
    LET I == 0..Max({0, Len(a) - 1})
    IN  {q \in I \X I : q[1] <= q[2] + 1}

SortSpecInit ==
    /\ arr \in {Tagged(ks) : ks \in KeySeqs}
    /\ arr0 = arr
    /\ sortOp = "none"
    /\ part \in PartitionBounds(arr)
    /\ pi = -1
    /\ SearchIdle /\ BstIdle /\ GraphIdle /\ ListIdle

SortSpec == SortSpecInit /\ [][SortNext]_vars

SearchNext == LinearSearch \/ BinarySearch

\* The targets include one key that no sequence holds; the bounds of
\* binary_search include the ones a caller gets wrong by one.
SearchSpecInit ==
    /\ s_arr \in KeySeqs
    /\ x \in 1..(MaxKey + 1)
    /\ low \in 0..Len(s_arr)
    /\ high \in -1..Len(s_arr)
    /\ lin_result = <<>> /\ bin_result = <<>>
    /\ SortIdle /\ BstIdle /\ GraphIdle /\ ListIdle

SearchSpec == SearchSpecInit /\ [][SearchNext]_vars

BstNext == Insert \/ Inorder \/ Search

BstSpecInit ==
    /\ nodes = <<>> /\ root = None /\ nodes0 = <<>> /\ root0 = None
    /\ inserted = <<>> /\ bstOp = "none"
    /\ bst_key = 0 /\ bst_ret = None /\ bst_out = <<>>
    /\ SortIdle /\ SearchIdle /\ GraphIdle /\ ListIdle

BstSpec == BstSpecInit /\ [][BstNext]_vars

GraphNext == AddEdge \/ Bfs \/ Dfs

GraphSpecInit ==
    /\ graph = EmptyGraph /\ graph0 = EmptyGraph /\ g_edges = EmptyGraph
    /\ gOp = "none"
    /\ g_arg = <<>> /\ g_out = <<>> /\ g_err = "none"
    /\ StepIdle
    /\ SortIdle /\ SearchIdle /\ BstIdle /\ ListIdle

GraphSpec == GraphSpecInit /\ [][GraphNext]_vars

TraverseNext ==
    StepBfsStart \/ StepBfsWhile \/ StepBfsFor \/ StepDfsStart \/ StepDfsFor

\* One call of bfs or dfs, on any graph that up to MaxEdges add_edge calls
\* make, from any start.
TraverseSpecInit ==
    /\ graph \in {AddAll(EmptyGraph, es) : es \in EdgeSeqs}
    /\ graph0 = graph /\ g_edges = graph
    /\ gOp \in {"bfs", "dfs"}
    /\ g_arg \in {<<s>> : s \in Vertices}
    /\ g_out = <<>> /\ g_err = "none"
    /\ pc = "start" /\ t_queue = <<>> /\ t_visited = <<>> /\ t_dfs_visited = {}
    /\ t_stack = <<>> /\ t_loop = <<>>
    /\ SortIdle /\ SearchIdle /\ BstIdle /\ ListIdle

\* The interpreter runs one thread and goes on to the next statement as long
\* as there is one.
TraverseSpec ==
    TraverseSpecInit /\ [][TraverseNext]_vars /\ WF_vars(TraverseNext)

ListNext == Push \/ AppendData \/ InsertAfter \/ MakeNode

ListSpecInit ==
    /\ l_nodes = <<>> /\ head = None /\ l_nodes0 = <<>> /\ head0 = None
    /\ lOp = "none" /\ l_arg = <<>> /\ l_said = "none"
    /\ l_calls = 0 /\ l_foreign = FALSE
    /\ SortIdle /\ SearchIdle /\ BstIdle /\ GraphIdle

ListSpec == ListSpecInit /\ [][ListNext]_vars

\* ------------------------------------------------------------------------
\* Properties
\* ------------------------------------------------------------------------
Range(a) == {a[i] : i \in DOMAIN a}

Count(a, e) == Cardinality({i \in DOMAIN a : a[i] = e})

IsPermutation(a, b) ==
    /\ Len(a) = Len(b)
    /\ \A e \in Range(a) \cup Range(b) : Count(a, e) = Count(b, e)

KeysNonDecreasing(a) == \A i \in 1..(Len(a) - 1) : a[i].key <= a[i + 1].key

HasEqualKeys(a) == \E i, j \in DOMAIN a : i < j /\ a[i].key = a[j].key

PosIn(a, e) == CHOOSE i \in DOMAIN a : a[i] = e

\* Elements with equal keys stand in `after` in the order they had in `before`.
Stable(before, after) ==
    \A i, j \in DOMAIN after :
        (i < j /\ after[i].key = after[j].key)
            => PosIn(before, after[i]) < PosIn(before, after[j])

\* The last call was one of the three sorts.
SortCalled == sortOp \in {"bubble_sort", "merge_sort", "quick_sort"}

\* C1: after bubble_sort(arr), merge_sort(arr) or quick_sort(arr, 0, len(arr)-1)
\* the list is a permutation of what it held before the call, in non-decreasing
\* order of key; the inputs include the empty list, one-element lists and lists
\* with repeated keys.
C1_SortsPermuteIntoOrder ==
    SortCalled => KeysNonDecreasing(arr) /\ IsPermutation(arr, arr0)

C1_Witness ==
    /\ sortOp = "quick_sort"
    /\ Len(arr) >= 3
    /\ HasEqualKeys(arr)
    /\ ~KeysNonDecreasing(arr0)

\* C2: merge_sort is stable: two elements that compare equal leave merge_sort
\* in the order in which they entered it.
C2_MergeSortStable ==
    sortOp = "merge_sort" => Stable(arr0, arr)

\* C11: a sort applied to a list that is already in order, repeated keys
\* included, leaves every position as it was.
C11_SortingSortedIsNoOp ==
    (SortCalled /\ KeysNonDecreasing(arr0)) => arr = arr0

\* Beside C11: bubble_sort and quick_sort do leave a sorted list as it was.
BubbleAndQuickKeepSorted ==
    (sortOp \in {"bubble_sort", "quick_sort"} /\ KeysNonDecreasing(arr0))
        => arr = arr0

\* Beside C11: no sort changes the sequence of keys of a sorted list.
SortedKeysStay ==
    (SortCalled /\ KeysNonDecreasing(arr0)) =>
        [i \in DOMAIN arr |-> arr[i].key] = [i \in DOMAIN arr0 |-> arr0[i].key]

\* C12: bubble_sort is stable: it swaps neighbours only when the left one is
\* greater, so elements that compare equal leave it in the order in which
\* they entered it.
C12_BubbleSortStable ==
    sortOp = "bubble_sort" => Stable(arr0, arr)

\* Equal keys that had a greater key between them.
C12_Witness ==
    /\ sortOp = "bubble_sort"
    /\ arr # arr0
    /\ \E i, j, k \in DOMAIN arr0 :
           /\ i < k /\ k < j
           /\ arr0[i].key = arr0[j].key
           /\ arr0[k].key > arr0[i].key

\* C8: linear_search returns the smallest index at which the target stands
\* when the target occurs in the list, and -1 exactly when it does not occur.
C8_LinearSearchFirstIndex ==
    lin_result # <<>> =>
        LET r == lin_result[1]
        IN  IF x \in Range(s_arr)
            THEN /\ r \in 0..(Len(s_arr) - 1)
                 /\ s_arr[r + 1] = x
                 /\ \A i \in 0..(r - 1) : s_arr[i + 1] # x
            ELSE r = -1

C8_Witness ==
    /\ lin_result # <<>>
    /\ lin_result[1] >= 1
    /\ Count(s_arr, x) >= 2

IntsNonDecreasing(a) == \A i \in 1..(Len(a) - 1) : a[i] <= a[i + 1]

WholeList == low = 0 /\ high = Len(s_arr) - 1

\* C9: on a list in ascending order (repeats and the empty list included)
\* binary_search(arr, 0, len(arr)-1, x) returns -1 exactly when
\* linear_search(arr, x) returns -1, and an index it returns holds x.
C9_BinaryAgreesWithLinear ==
    (lin_result # <<>> /\ bin_result # <<>> /\ WholeList
        /\ IntsNonDecreasing(s_arr)) =>
        LET b == bin_result[1]
        IN  /\ b.raised = "none"
            /\ (b.ret = -1) <=> (lin_result[1] = -1)
            /\ b.ret # -1 => (b.ret \in 0..(Len(s_arr) - 1) /\ s_arr[b.ret + 1] = x)

\* A sorted list with a repeated target, found at another index than the first.
C9_Witness ==
    /\ lin_result # <<>> /\ bin_result # <<>> /\ WholeList
    /\ IntsNonDecreasing(s_arr)
    /\ bin_result[1].ret # -1
    /\ bin_result[1].ret # lin_result[1]

\* C10: for every list, sorted or not, and bounds 0 <= low, high <= len(arr)-1,
\* binary_search raises no IndexError and returns -1 or an index i with
\* low <= i <= high and arr[i] = x.
C10_BinarySearchInBounds ==
    (bin_result # <<>> /\ low >= 0 /\ high <= Len(s_arr) - 1) =>
        LET b == bin_result[1]
        IN  /\ b.raised = "none"
            /\ \/ b.ret = -1
               \/ (low <= b.ret /\ b.ret <= high /\ s_arr[b.ret + 1] = x)

\* An unsorted list that holds the target between the bounds, and the search
\* misses it.
C10_Witness ==
    /\ bin_result # <<>> /\ low >= 0 /\ high <= Len(s_arr) - 1
    /\ ~IntsNonDecreasing(s_arr)
    /\ \E i \in low..high : s_arr[i + 1] = x
    /\ bin_result[1].ret = -1

\* The nodes of the subtree that hangs from reference r.
RECURSIVE Subtree(_, _)
Subtree(h, r) ==
    IF r = None THEN {}
    ELSE {r} \cup Subtree(h, h[r].left) \cup Subtree(h, h[r].right)

RECURSIVE InsertAll(_, _, _)
InsertAll(h, r, keys) ==
    IF keys = <<>> THEN [h |-> h, ret |-> r]
    ELSE LET s == insert(h, r, Head(keys))
         IN  InsertAll(s.h, s.ret, Tail(keys))

ScriptTree == InsertAll(<<>>, None, <<50, 30, 20, 40, 70, 60, 80>>)

\* C3: after any sequence of inserts into an empty tree, repeated keys
\* included, inorder prints a non-decreasing sequence that is a permutation of
\* the inserted keys; 50,30,20,40,70,60,80 prints 20,30,40,50,60,70,80.
C3_InorderSortsInsertedKeys ==
    /\ bstOp = "inorder" =>
        /\ IntsNonDecreasing(bst_out)
        /\ IsPermutation(bst_out, inserted)
    /\ inorder(ScriptTree.h, ScriptTree.ret) = <<20, 30, 40, 50, 60, 70, 80>>

C3_Witness ==
    /\ bstOp = "inorder"
    /\ Len(bst_out) >= 3
    /\ \E i, j \in DOMAIN inserted : i < j /\ inserted[i] = inserted[j]
    /\ bst_out # inserted

\* C4: search returns a node exactly when its key was inserted before, the
\* node returned holds that key, and it returns None otherwise.
C4_SearchFindsExactlyInserted ==
    bstOp = "search" =>
        /\ (bst_ret # None) <=> (bst_key \in Range(inserted))
        /\ bst_ret # None => (bst_ret \in DOMAIN nodes /\ nodes[bst_ret].val = bst_key)

\* A key found below the root, in a tree that holds a repeated key.
C4_Witness ==
    /\ bstOp = "search"
    /\ bst_ret # None /\ bst_ret # root
    /\ \E i, j \in DOMAIN inserted : i < j /\ inserted[i] = inserted[j]

RECURSIVE ReachFrom(_, _)
ReachFrom(g, S) ==
    LET N == S \cup UNION {Range(g[u]) : u \in S \cap DOMAIN g}
    IN  IF N = S THEN S ELSE ReachFrom(g, N)

Reachable(g, s) == ReachFrom(g, {s})

NoRepeats(a) == \A i, j \in DOMAIN a : a[i] = a[j] => i = j

\* A vertex some edge leads to and no add_edge call had as its source: a key
\* that add_edge made has a non-empty sequence.
TargetOnly(g, t) ==
    /\ t \notin DOMAIN g \/ g[t] = <<>>
    /\ \E u \in DOMAIN g : t \in Range(g[u])

Traversed == gOp \in {"bfs", "dfs"}

\* C6: bfs(s) and dfs(s) each print exactly the vertices reachable from s,
\* s included, each of them once (stated for a start s that is a key of the
\* mapping; for any other start bfs has a shorter way to fail, in max() or
\* at visited[s]).
C6_TraversalsEmitReachableOnce ==
    (Traversed /\ g_arg[1] \in DOMAIN graph0) =>
        /\ g_err = "none"
        /\ Range(g_out) = Reachable(graph0, g_arg[1])
        /\ NoRepeats(g_out)

\* C7: when a vertex that is only ever the target of edges is reachable from
\* the start, bfs and dfs finish without an exception and print it.
C7_TargetOnlyVertexIsEmitted ==
    Traversed =>
        \A t \in Reachable(graph0, g_arg[1]) :
            TargetOnly(graph0, t) => (g_err = "none" /\ t \in Range(g_out))

\* Following next from n reaches None within k steps.
RECURSIVE EndsWithin(_, _, _)
EndsWithin(h, n, k) ==
    IF n = None THEN TRUE
    ELSE IF k = 0 THEN FALSE
    ELSE EndsWithin(h, h[n].next, k - 1)

Length(h, hd) == Cardinality(NodesFrom(h, hd, {}))

\* C13: after any pushes, appends and insert_after calls on a list that
\* starts empty, insert_after being given None or a node of the list each
\* time, following next from head ends at None (no cycle), and the nodes
\* reachable from head are as many as the pushes, the appends and the
\* insert_after calls with a target other than None.
C13_ListEndsAndCounts ==
    ~l_foreign =>
        /\ EndsWithin(l_nodes, head, Len(l_nodes))
        /\ Length(l_nodes, head) = l_calls

\* A list of three or more nodes that do not stand in their order of
\* creation, right after a call with None.
C13_Witness ==
    /\ ~l_foreign
    /\ lOp = "insert_after" /\ l_arg[1] = None
    /\ Length(l_nodes, head) >= 3
    /\ \E n \in NodesFrom(l_nodes, head, {}) :
           n # head /\ l_nodes[n].next # None /\ l_nodes[n].next > n

\* C14: insert_after with None as the target reports it and changes
\* nothing: head, every node's data and next are as before the call, and no
\* node is made.
C14_InsertAfterNoneChangesNothing ==
    (lOp = "insert_after" /\ l_arg[1] = None) =>
        /\ l_said = Message
        /\ head = head0
        /\ l_nodes = l_nodes0

C14_Witness ==
    /\ lOp = "insert_after" /\ l_arg[1] = None
    /\ Length(l_nodes, head) >= 2

\* C15: insert_after with a node that is not in the list fails, and the
\* length of the list is as before the call.
C15_InsertAfterForeignNodeFails ==
    (lOp = "insert_after" /\ l_arg[1] # None
        /\ ~InList(l_nodes0, head0, l_arg[1])) =>
        /\ l_said # "none"
        /\ Length(l_nodes, head) = Length(l_nodes0, head0)

\* C16: after push(v) the traversal is v followed by what the list held
\* before, in the order it had.
C16_PushPrepends ==
    lOp = "push" =>
        print_list(l_nodes, head) = <<l_arg[1]>> \o print_list(l_nodes0, head0)

C16_Witness ==
    /\ lOp = "push"
    /\ Len(print_list(l_nodes0, head0)) >= 2
    /\ Len(l_nodes0) > Len(print_list(l_nodes0, head0))

\* C17: after append(v) the traversal is what the list held before, in the
\* order it had, followed by v; on an empty list v is the only element and
\* the head.
C17_AppendAppends ==
    lOp = "append" =>
        /\ print_list(l_nodes, head) = Append(print_list(l_nodes0, head0), l_arg[1])
        /\ head0 = None =>
               /\ head # None
               /\ l_nodes[head].data = l_arg[1]
               /\ l_nodes[head].next = None

\* An append to a list whose last node is not the node made last.
C17_Witness ==
    /\ lOp = "append"
    /\ Len(print_list(l_nodes0, head0)) >= 2
    /\ LastNode(l_nodes0, head0) # Len(l_nodes0)

\* C18: bfs(start) on a graph all of whose keys are smaller than start
\* raises IndexError at the visited list, which has max(keys) + 1 entries,
\* before it prints a vertex.
C18_BfsStartBeyondKeysFails ==
    (gOp = "bfs" /\ DOMAIN graph0 # {}
        /\ \A k \in DOMAIN graph0 : k < g_arg[1]) =>
        /\ g_err = "IndexError"
        /\ g_out = <<>>

C18_Witness ==
    /\ gOp = "bfs" /\ DOMAIN graph0 # {}
    /\ \A k \in DOMAIN graph0 : k < g_arg[1]
    /\ g_err = "IndexError"

\* The adjacency sequence recorded for v, empty when v is no key.
Adj(g, v) == IF v \in DOMAIN g THEN g[v] ELSE <<>>

Min(S) == CHOOSE m \in S : \A n \in S : m <= n

\* The number of edges on a shortest path from the vertices of S to v; v is
\* reachable from S, and d is the distance of S's farthest vertices.
RECURSIVE DistFrom(_, _, _, _)
DistFrom(g, S, v, d) ==
    IF v \in S THEN d
    ELSE DistFrom(g, S \cup UNION {Range(Adj(g, u)) : u \in S}, v, d + 1)

Dist(g, s, v) == DistFrom(g, {s}, v, 0)

FirstAt(a, e) == Min({i \in DOMAIN a : a[i] = e})

\* The vertex from which bfs discovers out[i]: the first one printed that has
\* an edge to it.
Discoverer(g, out, i) ==
    out[Min({j \in DOMAIN out : out[i] \in Range(Adj(g, out[j]))})]

\* out starts with s, goes on in non-decreasing distance from s, and holds the
\* vertices discovered from one vertex in the order of that vertex's
\* adjacency sequence.
BfsOrder(g, s, out) ==
    /\ out # <<>> /\ out[1] = s
    /\ \A i, j \in DOMAIN out :
           i < j => Dist(g, s, out[i]) <= Dist(g, s, out[j])
    /\ \A i, j \in (DOMAIN out) \ {1} :
           (i < j /\ Discoverer(g, out, i) = Discoverer(g, out, j)) =>
               LET a == Adj(g, Discoverer(g, out, i))
               IN  FirstAt(a, out[i]) < FirstAt(a, out[j])

ScriptGraph ==
    AddAll(EmptyGraph, << <<0, 1>>, <<0, 2>>, <<1, 2>>, <<2, 0>>, <<2, 3>>, <<3, 3>> >>)

\* C19: bfs(start) prints start first and then every other reachable vertex,
\* in non-decreasing distance from start, the vertices discovered from one
\* vertex in that vertex's adjacency order; on the script's graph bfs(2)
\* prints 2, 0, 3, 1 (stated for a start that is a key of the mapping).
C19_BfsEmitsByDistance ==
    /\ (gOp = "bfs" /\ g_arg[1] \in DOMAIN graph0) =>
           /\ Range(g_out) = Reachable(graph0, g_arg[1])
           /\ BfsOrder(graph0, g_arg[1], g_out)
    /\ bfs(ScriptGraph, 2).out = <<2, 0, 3, 1>>

\* Beside C19: a bfs that raises nothing prints the reachable vertices in
\* that order, and one that raises has printed a prefix in that order.
BfsOrderedUntilError ==
    gOp = "bfs" =>
        /\ g_out # <<>> => BfsOrder(graph0, g_arg[1], g_out)
        /\ g_err = "none" => Range(g_out) = Reachable(graph0, g_arg[1])

HasUnseen(g, v, seen) == \E i \in DOMAIN Adj(g, v) : Adj(g, v)[i] \notin seen

FirstUnseen(g, v, seen) ==
    LET a == Adj(g, v)
    IN  a[Min({i \in DOMAIN a : a[i] \notin seen})]

\* out is the depth-first preorder from s: it starts with s; each next vertex
\* is the first neighbour not yet printed, in adjacency order, of the vertex
\* printed latest that still has one; and it ends when no printed vertex has
\* one.
IsDfsPreorder(g, s, out) ==
    /\ out # <<>> /\ out[1] = s
    /\ \A i \in 1..(Len(out) - 1) :
           LET seen == {out[k] : k \in 1..i}
               open == {j \in 1..i : HasUnseen(g, out[j], seen)}
           IN  /\ open # {}
               /\ out[i + 1] = FirstUnseen(g, out[Max(open)], seen)
    /\ \A j \in DOMAIN out : ~HasUnseen(g, out[j], Range(out))

\* C20: dfs(start) prints the vertices in depth-first preorder: start first,
\* then for each neighbour in adjacency order that is unvisited at that
\* moment the whole traversal of that neighbour before the next neighbour;
\* on the script's graph dfs(2) prints 2, 0, 1, 3.
C20_DfsEmitsPreorder ==
    /\ gOp = "dfs" =>
           /\ g_err = "none"
           /\ IsDfsPreorder(graph0, g_arg[1], g_out)
    /\ dfs(ScriptGraph, 2).out = <<2, 0, 1, 3>>

\* A traversal that comes back from a dead end to a second neighbour.
C20_Witness ==
    /\ gOp = "dfs"
    /\ Len(g_out) >= 3
    /\ g_out[3] \notin Range(Adj(graph0, g_out[2]))

\* The place of node n in the traversal from hd, the head's place being 1.
RECURSIVE PlaceOf(_, _, _)
PlaceOf(h, hd, n) == IF hd = n THEN 1 ELSE 1 + PlaceOf(h, h[hd].next, n)

\* a with v put directly behind its p-th element
PutBehind(a, p, v) == SubSeq(a, 1, p) \o <<v>> \o SubSeq(a, p + 1, Len(a))

\* llist.append(6); llist.push(7); llist.push(1); llist.append(4);
\* llist.insert_after(llist.head.next, 8)
ScriptList ==
    LET a == append(<<>>, None, 6)
        b == push(a.h, a.head, 7)
        c == push(b.h, b.head, 1)
        d == append(c.h, c.head, 4)
    IN  insert_after(d.h, d.head, d.h[d.head].next, 8)

\* C21: for a target node that is in the list, insert_after(target, v) puts
\* v directly behind the target: the traversal after the call is the one
\* before it with v put behind the target's place, the other elements in
\* their order, and it is longer by one; the script's list prints 1, 7, 8, 6, 4.
C21_InsertAfterPlacesBehindTarget ==
    /\ (lOp = "insert_after" /\ l_arg[1] # None
            /\ InList(l_nodes0, head0, l_arg[1])) =>
           LET before == print_list(l_nodes0, head0)
               after  == print_list(l_nodes, head)
           IN  /\ after = PutBehind(before, PlaceOf(l_nodes0, head0, l_arg[1]), l_arg[2])
               /\ Len(after) = Len(before) + 1
               /\ head = head0
               /\ l_said = "none"
    /\ print_list(ScriptList.h, ScriptList.head) = <<1, 7, 8, 6, 4>>

\* A target in the middle of a list, with data that differs from the target's.
C21_Witness ==
    /\ lOp = "insert_after" /\ l_arg[1] # None
    /\ InList(l_nodes0, head0, l_arg[1])
    /\ l_arg[1] # head0
    /\ l_nodes0[l_arg[1]].next # None
    /\ l_nodes0[l_arg[1]].data # l_arg[2]

\* C22: add_edge(u, v) puts v at the end of u's adjacency sequence and makes
\* the entry for u when there was none; what u's sequence held stays in its
\* order, a repeated add_edge(u, v) records v again, no entry is made for v,
\* and the sequence of every other vertex is as before.
C22_AddEdgeAppendsToSourceOnly ==
    gOp = "add_edge" =>
        LET u == g_arg[1]
            v == g_arg[2]
        IN  /\ DOMAIN graph = DOMAIN graph0 \cup {u}
            /\ graph[u] = Append(Adj(graph0, u), v)
            /\ \A k \in DOMAIN graph0 \ {u} : graph[k] = graph0[k]
            /\ (v # u /\ v \notin DOMAIN graph0) => v \notin DOMAIN graph

\* An edge recorded a second time, to a vertex that has no entry.
C22_Witness ==
    /\ gOp = "add_edge"
    /\ g_arg[2] \in Range(Adj(graph0, g_arg[1]))
    /\ Count(graph[g_arg[1]], g_arg[2]) = 2
    /\ g_arg[2] \notin DOMAIN graph

\* The elements of a at the indices lo..hi, as a sequence.
Slice(a, lo, hi) == [i \in 1..(hi - lo + 1) |-> Get(a, lo + i - 1)]

\* C23: for bounds 0 <= low <= high < len(arr), partition(arr, low, high)
\* returns an index p with low <= p <= high; arr[p] is the element that stood
\* at arr[high]; the elements of arr[low..p-1] are <= arr[p] and those of
\* arr[p+1..high] are > arr[p]; arr[low..high] is a permutation of what it
\* held; the positions outside low..high are as before; and quick_sort goes
\* on with low..p-1 and p+1..high.
C23_PartitionSplitsAroundPivot ==
    (sortOp = "partition" /\ part[1] <= part[2]) =>
        LET lo == part[1]
            hi == part[2]
            p  == pi
        IN  /\ lo <= p /\ p <= hi
            /\ Get(arr, p) = Get(arr0, hi)
            /\ \A i \in lo..(p - 1) : Get(arr, i).key <= Get(arr, p).key
            /\ \A i \in (p + 1)..hi : Get(arr, i).key > Get(arr, p).key
            /\ IsPermutation(Slice(arr, lo, hi), Slice(arr0, lo, hi))
            /\ Len(arr) = Len(arr0)
            /\ \A i \in 0..(Len(arr) - 1) :
                   (i < lo \/ i > hi) => Get(arr, i) = Get(arr0, i)
            /\ lo < hi =>
                   quick_sort(arr0, lo, hi) =
                       quick_sort(quick_sort(arr, lo, p - 1), p + 1, hi)

\* A part of the list with elements on both sides of the pivot, a key equal
\* to the pivot's among them, and elements outside the part.
C23_Witness ==
    /\ sortOp = "partition" /\ part[1] < part[2]
    /\ part[1] < pi /\ pi < part[2]
    /\ part[1] > 0
    /\ arr # arr0
    /\ \E i \in part[1]..(pi - 1) : Get(arr, i).key = Get(arr, pi).key

\* The links of the nodes of h0 that differ in h: pairs of a node and a side.
ChangedLinks(h0, h) ==
    {<<n, "left">> : n \in {m \in DOMAIN h0 : h[m].left # h0[m].left}}
        \cup {<<n, "right">> : n \in {m \in DOMAIN h0 : h[m].right # h0[m].right}}

LinkOf(h, l) == IF l[2] = "left" THEN h[l[1]].left ELSE h[l[1]].right

\* C24: insert(root, key) on no root returns a new leaf that holds key; on a
\* root it returns that root, adds one new leaf to the tree, and leaves the
\* key and the child links of every node that was there as they were, but
\* for the one link that was None and now holds the new leaf.
C24_InsertAddsOneLeafOnly ==
    bstOp = "insert" =>
        LET new == Len(nodes0) + 1
            changed == ChangedLinks(nodes0, nodes)
        IN  /\ Len(nodes) = new
            /\ nodes[new] = NewNode(bst_key)
            /\ \A n \in DOMAIN nodes0 : nodes[n].val = nodes0[n].val
            /\ root0 = None => (root = new /\ changed = {})
            /\ root0 # None =>
                   /\ root = root0
                   /\ Subtree(nodes, root) = Subtree(nodes0, root0) \cup {new}
                   /\ Cardinality(changed) = 1
                   /\ \A l \in changed :
                          /\ l[1] \in Subtree(nodes0, root0)
                          /\ LinkOf(nodes0, l) = None
                          /\ LinkOf(nodes, l) = new

\* A leaf hung two levels below the root, beside a node that has a child.
C24_Witness ==
    /\ bstOp = "insert"
    /\ root0 # None
    /\ \E n \in DOMAIN nodes0 :
           /\ n # root0
           /\ Len(nodes) \in {nodes[n].left, nodes[n].right}
           /\ None \notin {nodes[n].left, nodes[n].right}

\* C25: bfs and dfs only read the graph: after a traversal that completes,
\* the mapping has the keys it had before the call, each with the adjacency
\* sequence it had.
C25_TraversalsLeaveGraphAsItWas ==
    (Traversed /\ g_err = "none") => graph = graph0

\* Beside C25: a traversal changes no adjacency sequence and adds only
\* entries with an empty sequence, for vertices it printed.
TraversalsAddOnlyEmptyEntries ==
    Traversed =>
        /\ \A k \in DOMAIN graph0 : k \in DOMAIN graph /\ graph[k] = graph0[k]
        /\ \A k \in DOMAIN graph \ DOMAIN graph0 :
               graph[k] = <<>> /\ k \in Range(g_out)

\* C26: what bfs(s) prints and whether it raises depend on the add_edge
\* calls made and on s alone: they are what bfs(s) gives after the same
\* add_edge calls with no bfs or dfs call before it.
C26_BfsOutcomeIgnoresEarlierTraversals ==
    gOp = "bfs" =>
        LET alone == bfs(g_edges, g_arg[1])
        IN  g_out = alone.out /\ g_err = alone.err

\* Beside C26: an earlier bfs alone never changes what a later bfs gives;
\* the keys that bfs adds are below the greatest key.
BfsKeepsGreatestKey ==
    (gOp = "bfs" /\ DOMAIN graph0 # {}) => Max(DOMAIN graph) = Max(DOMAIN graph0)

\* While bfs is in its loop a vertex in the queue is marked in visited (the
\* start is appended one statement before it is marked, and bfs ends there
\* when marking it raises); a vertex of a dfs_util call under way is in the
\* set of dfs; and no vertex was enqueued or entered twice: each one is
\* printed or waits in the queue at most once.
MarkedWhenTaken ==
    /\ pc \in {"while", "for"} =>
           \A k \in DOMAIN t_queue :
               t_queue[k] \in DOMAIN t_visited /\ t_visited[t_queue[k]] = TRUE
    /\ NoRepeats(g_out \o t_queue)
    /\ \A k \in DOMAIN t_stack : t_stack[k].v \in t_dfs_visited
    /\ NoRepeats([k \in DOMAIN t_stack |-> t_stack[k].v])
    /\ gOp = "dfs" => Range(g_out) = t_dfs_visited

\* Some vertex of the graph lies on a cycle, a self-loop included.
OnCycle(g, u) == u \in ReachFrom(g, Range(Adj(g, u)))

\* C27: bfs and dfs come to an end on every graph, with cycles, self-loops
\* and repeated edges: a vertex is marked no later than when it is enqueued
\* (bfs) or entered (dfs), so none is enqueued or entered twice, and the
\* traversal ends (bfs by the queue running empty or by the IndexError of
\* C6, dfs by the outermost dfs_util call returning).
C27_TraversalsTerminate ==
    []MarkedWhenTaken /\ <>(pc = "done")

\* A traversal that ended without an exception after it came back to its
\* start round a cycle of two vertices.
C27_Witness ==
    /\ pc = "done" /\ g_err = "none"
    /\ Len(g_out) >= 2
    /\ OnCycle(graph0, g_arg[1])
    /\ g_arg[1] \notin Range(Adj(graph0, g_arg[1]))

\* Beside C27: the traversal taken statement by statement ends with the
\* output, the exception and the mapping that the call taken as a whole gives.
StepsAgreeWithCalls ==
    pc = "done" =>
        LET r == IF gOp = "bfs" THEN bfs(graph0, g_arg[1]) ELSE dfs(graph0, g_arg[1])
        IN  g_out = r.out /\ g_err = r.err /\ graph = r.g

====
